---- MODULE Spec2Model ----
(***************************************************************************)
(* CTI dashboard: the IOC store (services/database.py), the lookup path    *)
(* (services/threat_intel.py) and the real-time feed monitor               *)
(* (services/realtime_feeds.py), as a state machine.                       *)
(*                                                                         *)
(* A MongoDB collection is a sequence of documents in insertion order; a   *)
(* document is a record; "_id" is the field id.  Every call that reaches   *)
(* the database (find_one, insert_one, update_one, count_documents) is one *)
(* atomic step; a handler is the sequence of its steps, so handlers of     *)
(* different threads interleave between database calls exactly as Flask    *)
(* request threads and the monitor thread do.  A handler reads the clock   *)
(* in a step of its own, between the answer of one database call and the   *)
(* sending of the next.                                                    *)
(***************************************************************************)
EXTENDS Integers, Sequences, FiniteSets, TLC

VARIABLES
    iocs,        \* the iocs collection
    now,         \* datetime.utcnow()
    req,         \* the locals of each caller thread
    monitoring,  \* RealtimeFeedService.monitoring
    live_stats,  \* RealtimeFeedService.live_stats, one dict mutated in place
    mon,         \* the locals of each monitor thread start_monitoring spawned
    upd,         \* the locals of each running _update_live_stats
    hist,        \* history: the scores and sources store_ioc has written, per key
    written_by,  \* history: which recompute wrote each key of live_stats
    stopped,     \* history: stop_monitoring has been called on a running monitor
    calc,        \* the last call of a scoring function and what it returned
    ncalls, ncycles, nfaults, nstats   \* counters the bounds are stated on

store_vars == <<iocs, hist>>
feed_vars == <<monitoring, live_stats, mon, upd, written_by, stopped, ncycles, nfaults, nstats>>
vars == <<iocs, now, req, monitoring, live_stats, mon, upd, hist, written_by, stopped,
          calc, ncalls, ncycles, nfaults, nstats>>

(***************************************************************************)
(* Bounds of the model.                                                    *)
(***************************************************************************)
MaxCalls == 3
MaxClients == 2
MaxLoops == 2
MaxCycles == 2
MaxFaults == 1
MaxRaw == 20
MaxRatio == 3
MaxCount == 12
MaxRecords == 7
MaxLimit == 4
MaxPage == 4
MaxTied == 2
MaxWrites == 1

(***************************************************************************)
(* Program constants.                                                      *)
(***************************************************************************)
FreshnessWindow == 3600
SecondsPerDay == 86400
ScoreCap == 100
VtIpWeight == 10
VtDomainWeight == 5
MantissaBits == 53
DefaultLimit == 50

(***************************************************************************)
(* Input samples: the indicator values the generators and the callers      *)
(* draw, the instants the clock is read at, the answers of the sources.    *)
(***************************************************************************)
IPs == {"198.51.100.7"}
Domains == {"secure-bank10.tk"}
Hashes == {"e3b0c442"}
Values == IPs \cup Domains \cup Hashes
Types == {"ip", "domain", "hash", "url"}
Keys == (IPs \X {"ip"}) \cup (Domains \X {"domain"}) \cup (Hashes \X {"hash"})
Times == {0, 1800, 3600, 86400}
ScoreSamples == {70, 95}
DetectedSamples == {0, 12}
ConfidenceSamples == {45}
NoData == [source |-> "none"]
None == [id |-> 0]

Max(a, b) == IF a >= b THEN a ELSE b
Min(a, b) == IF a <= b THEN a ELSE b
SetMax(S) == CHOOSE x \in S : \A y \in S : y <= x
Get(d, k, default) == IF k \in DOMAIN d THEN d[k] ELSE default
Clients == 1..MaxClients

(***************************************************************************)
(* ThreatIntelService: scoring.                                            *)
(***************************************************************************)
normalize_threat_score(source, score) == Min(ScoreCap, score)

(***************************************************************************)
(* Python floats: IEEE 754 doubles, every operation rounded to nearest,    *)
(* ties to even.  The significand is kept as its bits, which do not fit    *)
(* the integers of the checker.                                            *)
(***************************************************************************)
\* a power of two
RECURSIVE Pow2(_)
Pow2(n) == IF n = 0 THEN 1 ELSE 2 * Pow2(n - 1)

\* 2^n modulo m, by squaring
RECURSIVE Pow2Mod(_, _)
Pow2Mod(n, m) ==
    IF n = 0 THEN 1 % m
    ELSE LET half == Pow2Mod(n \div 2, m)
         IN (half * half * (IF n % 2 = 1 THEN 2 ELSE 1)) % m

\* a natural number in binary, most significant bit first; 0 is <<>>
RECURSIVE binary(_)
binary(n) == IF n = 0 THEN <<>> ELSE binary(n \div 2) \o <<n % 2>>

\* a natural number in binary on n bits
padded(k, n) == [i \in 1..(n - Len(binary(k))) |-> 0] \o binary(k)

\* the value of a short bit string
RECURSIVE value_of(_)
value_of(bits) ==
    IF bits = <<>> THEN 0
    ELSE 2 * value_of(SubSeq(bits, 1, Len(bits) - 1)) + bits[Len(bits)]

\* the last place of a bit string that holds b, 0 when there is none
last_of(bits, b) ==
    LET places == {i \in 1..Len(bits) : bits[i] = b}
    IN IF places = {} THEN 0 ELSE CHOOSE i \in places : \A j \in places : j <= i

\* a bit string plus one, the carry included
increment(bits) ==
    LET z == last_of(bits, 0)
    IN IF z = 0 THEN <<1>> \o [i \in 1..Len(bits) |-> 0]
       ELSE [i \in 1..Len(bits) |-> IF i < z THEN bits[i] ELSE IF i = z THEN 1 ELSE 0]

\* a bit string without the zeros at its end
strip(bits) == SubSeq(bits, 1, last_of(bits, 1))

\* the float 0.0; a float other than zero is 1.f * 2^exp, mant the
\* MantissaBits bits of 1.f
Zero == [mant |-> <<>>, exp |-> 0]

\* IEEE 754 round to nearest, ties to even: bits is the exact significand,
\* leading 1 first, of a value in [2^exp, 2^(exp+1)); sticky says the exact
\* value has non-zero bits after those of bits
round_to_double(bits, exp, sticky) ==
    IF Len(bits) <= MantissaBits
    THEN [mant |-> bits \o [i \in 1..(MantissaBits - Len(bits)) |-> 0], exp |-> exp]
    ELSE LET kept == SubSeq(bits, 1, MantissaBits)
             more == sticky \/ \E i \in (MantissaBits + 2)..Len(bits) : bits[i] = 1
             up == bits[MantissaBits + 1] = 1 /\ (more \/ kept[MantissaBits] = 1)
             rounded == IF up THEN increment(kept) ELSE kept
         IN IF Len(rounded) > MantissaBits
            THEN [mant |-> SubSeq(rounded, 1, MantissaBits), exp |-> exp + 1]
            ELSE [mant |-> rounded, exp |-> exp]

\* floor(log2(p / t)) for p, t > 0
RECURSIVE exponent(_, _)
exponent(p, t) ==
    IF p >= 2 * t THEN exponent(p, 2 * t) + 1
    ELSE IF p < t THEN exponent(2 * p, t) - 1
    ELSE 0

\* the first n bits of num / den in binary, for den <= num < 2 * den, and
\* the remainder left after them: the bit of weight 2^-j is the whole part
\* of 2 * ((num * 2^(j-1)) mod den) / den
quotient_bits(num, den, n) ==
    LET rest(j) == ((num % den) * Pow2Mod(j, den)) % den
    IN [bits |-> [i \in 1..n |-> IF i = 1 THEN 1
                                 ELSE IF 2 * rest(i - 2) >= den THEN 1 ELSE 0],
        rest |-> rest(n - 1)]

\* positives / total of two ints, positives >= 0 and total > 0: Python's
\* true division, the quotient rounded once to a double
true_div(p, t) ==
    IF p = 0 THEN Zero
    ELSE LET e == exponent(p, t)
             num == IF e < 0 THEN p * Pow2(0 - e) ELSE p
             den == IF e > 0 THEN t * Pow2(e) ELSE t
             q == quotient_bits(num, den, MantissaBits + 1)
         IN round_to_double(q.bits, e, q.rest # 0)

\* bits * k in binary, k a small natural number: the product is computed
\* on three limbs of bits and their carries
times(bits, k) ==
    LET n == Len(bits)
        limb == n \div 3
        low == value_of(SubSeq(bits, n - limb + 1, n)) * k
        mid == value_of(SubSeq(bits, n - 2 * limb + 1, n - limb)) * k + low \div Pow2(limb)
        high == value_of(SubSeq(bits, 1, n - 2 * limb)) * k + mid \div Pow2(limb)
    IN binary(high) \o padded(mid % Pow2(limb), limb) \o padded(low % Pow2(limb), limb)

\* x * k of a float and a small int: the exact product rounded once
float_mul(x, k) ==
    IF x = Zero \/ k = 0 THEN Zero
    ELSE LET product == times(x.mant, k)
         IN round_to_double(product, x.exp + Len(product) - MantissaBits, FALSE)

\* x < n for a float x >= 0 and an int n > 0
float_lt(x, n) ==
    LET e == Len(binary(n)) - 1
    IN \/ x = Zero
       \/ x.exp < e
       \/ x.exp = e /\ value_of(SubSeq(x.mant, 1, e + 1)) < n

\* a float x >= 0 as its whole part and the bits of its fraction
number(x) ==
    IF x = Zero THEN [whole |-> 0, frac |-> <<>>, float |-> TRUE]
    ELSE IF x.exp < 0
    THEN [whole |-> 0, frac |-> strip([i \in 1..(0 - x.exp - 1) |-> 0] \o x.mant),
          float |-> TRUE]
    ELSE [whole |-> value_of(SubSeq(x.mant, 1, x.exp + 1)),
          frac |-> strip(SubSeq(x.mant, x.exp + 2, MantissaBits)),
          float |-> TRUE]

\* an int
int(n) == [whole |-> n, frac |-> <<>>, float |-> FALSE]

\* lines 25-28: the branch for a VirusTotal score given as a dict of
\* positives and total: min(100, (positives / total) * 100) if total > 0
\* else 0.  The quotient and the product are floats, each rounded; min gives
\* the int 100 unless the float is smaller
normalize_ratio(positives, total) ==
    IF total > 0
    THEN LET x == float_mul(true_div(positives, total), 100)
         IN IF float_lt(x, ScoreCap) THEN number(x) ELSE int(ScoreCap)
    ELSE int(0)

\* classify_threat_score with the boundaries given to the lower tier
classify_threat_score_exclusive(score) ==
    IF score > 80 THEN "critical"
    ELSE IF score > 60 THEN "high"
    ELSE IF score > 30 THEN "medium"
    ELSE IF score > 0 THEN "low"
    ELSE "clean"

classify_threat_score(score) ==
    IF score >= 80 THEN "critical"
    ELSE IF score >= 60 THEN "high"
    ELSE IF score >= 30 THEN "medium"
    ELSE IF score > 0 THEN "low"
    ELSE "clean"

\* timedelta.seconds: the seconds component of a non-negative timedelta,
\* the days are a separate component
Seconds(delta) == delta % SecondsPerDay

(***************************************************************************)
(* RealtimeFeedService: the synthetic observation generators.  A generator *)
(* is the set of the documents its random draws can produce.               *)
(***************************************************************************)
demo_threats ==
    { [type |-> "malware", severity |-> "high", source |-> "honeypot"],
      [type |-> "phishing", severity |-> "medium", source |-> "email_filter"],
      [type |-> "botnet", severity |-> "critical", source |-> "network_monitor"],
      [type |-> "c2", severity |-> "high", source |-> "dns_sinkhole"],
      [type |-> "ransomware", severity |-> "critical", source |-> "endpoint_detection"] }

\* random.randint(lo, hi), over the sampled scores
RandInt(lo, hi) == {s \in ScoreSamples : lo <= s /\ s <= hi}

\* the dict every generator returns
ThreatIoc(value, type, score, dscore, template, tags, what) ==
    [value |-> value,
     type |-> type,
     threat_score |-> score,
     classification |-> template.severity,
     sources |-> {template.source},
     tags |-> tags,
     description |-> <<what, template.source>>,
     source_details |-> << [source |-> template.source,
                            threat_score |-> dscore,
                            classification |-> template.severity] >>]

generate_malware_ioc(template) ==
    LET ip == {ThreatIoc(v, "ip", s, d, template, {"malware", "suspicious_ip"},
                         "Malicious IP detected by") :
                   v \in IPs, s \in RandInt(70, 95), d \in RandInt(70, 95)}
        domain == {ThreatIoc(v, "domain", s, d, template, {"malware", "suspicious_domain"},
                             "Malicious domain detected by") :
                       v \in Domains, s \in RandInt(65, 90), d \in RandInt(65, 90)}
    IN IF Get(template, "force_ip", FALSE) THEN ip ELSE ip \cup domain

generate_phishing_ioc(template) ==
    {ThreatIoc(v, "domain", s, d, template, {"phishing", "credential_theft"},
               "Phishing domain detected by") :
         v \in Domains, s \in RandInt(80, 95), d \in RandInt(80, 95)}

generate_botnet_ioc(template) ==
    {ThreatIoc(v, "ip", s, d, template, {"botnet", "c2_communication"},
               "Botnet C2 server detected by") :
         v \in IPs, s \in RandInt(85, 98), d \in RandInt(85, 98)}

generate_c2_ioc(template) ==
    {ThreatIoc(v, "ip", s, d, template, {"c2", "command_control"},
               "C2 server detected by") :
         v \in IPs, s \in RandInt(90, 99), d \in RandInt(90, 99)}
    \cup
    {ThreatIoc(v, "domain", s, d, template, {"c2", "command_control"},
               "C2 domain detected by") :
         v \in Domains, s \in RandInt(88, 96), d \in RandInt(88, 96)}

generate_ransomware_ioc(template) ==
    {ThreatIoc(v, "hash", s, d, template, {"ransomware", "file_hash"},
               "Ransomware sample detected by") :
         v \in Hashes, s \in RandInt(95, 99), d \in RandInt(95, 99)}

generate_generic_ioc(template) ==
    {ThreatIoc(v, "ip", s, d, template, {"suspicious"},
               "Suspicious activity detected by") :
         v \in IPs, s \in RandInt(60, 85), d \in RandInt(60, 85)}

generate_threat_data(threat_template) ==
    CASE threat_template.type = "malware" -> generate_malware_ioc(threat_template)
      [] threat_template.type = "phishing" -> generate_phishing_ioc(threat_template)
      [] threat_template.type = "botnet" -> generate_botnet_ioc(threat_template)
      [] threat_template.type = "c2" -> generate_c2_ioc(threat_template)
      [] threat_template.type = "ransomware" -> generate_ransomware_ioc(threat_template)
      [] OTHER -> generate_generic_ioc(threat_template)

\* lines 84-91 of _simulate_threat_detection: pick a template, mark it
\* force_ip with probability 0.7, generate
NewThreats ==
    UNION {generate_threat_data(t) \cup generate_threat_data(t @@ [force_ip |-> TRUE]) :
               t \in demo_threats}

(***************************************************************************)
(* DatabaseService: the iocs collection.                                   *)
(***************************************************************************)
Matching(coll, value, type) ==
    {i \in 1..Len(coll) : coll[i].value = value /\ coll[i].type = type}

\* find_one({"value": value, "type": type}): the first match, or None
find_one(coll, value, type) ==
    LET m == Matching(coll, value, type)
    IN IF m = {} THEN None ELSE coll[CHOOSE i \in m : \A j \in m : i <= j]

get_ioc(coll, value, type) == find_one(coll, value, type)

\* update_data with the incoming score written over the stored one
update_data_last_wins(existing, ioc_data, t) ==
    [last_seen |-> t,
     sources |-> Get(existing, "sources", {}) \cup Get(ioc_data, "sources", {}),
     threat_score |-> Get(ioc_data, "threat_score", 0)]

\* update_data that derives the classification again from the merged score
update_data_reclassifies(existing, ioc_data, t) ==
    [last_seen |-> t,
     sources |-> Get(existing, "sources", {}) \cup Get(ioc_data, "sources", {}),
     threat_score |-> Max(Get(existing, "threat_score", 0),
                          Get(ioc_data, "threat_score", 0)),
     classification |-> classify_threat_score(Max(Get(existing, "threat_score", 0),
                                                  Get(ioc_data, "threat_score", 0)))]

\* update_data that stamps the creation time again
update_data_restamps(existing, ioc_data, t) ==
    [timestamp |-> t,
     last_seen |-> t,
     sources |-> Get(existing, "sources", {}) \cup Get(ioc_data, "sources", {}),
     threat_score |-> Max(Get(existing, "threat_score", 0),
                          Get(ioc_data, "threat_score", 0))]

\* lines 29-33 of store_ioc: the $set document, computed from the
\* document find_one returned
update_data(existing, ioc_data, t) ==
    [last_seen |-> t,
     sources |-> Get(existing, "sources", {}) \cup Get(ioc_data, "sources", {}),
     threat_score |-> Max(Get(existing, "threat_score", 0),
                          Get(ioc_data, "threat_score", 0))]

\* update_one({"_id": id}, {"$set": fields})
update_one(coll, id, fields) ==
    [i \in 1..Len(coll) |->
        IF coll[i].id = id
        THEN [f \in DOMAIN coll[i] \cup DOMAIN fields |->
                 IF f \in DOMAIN fields THEN fields[f] ELSE coll[i][f]]
        ELSE coll[i]]

\* line 38 of store_ioc: ioc_data["timestamp"] = datetime.utcnow(), the
\* caller's dict changed in place; t is the clock as this line reads it
stamp_timestamp(ioc_data, t) ==
    [f \in DOMAIN ioc_data \cup {"timestamp"} |->
        IF f = "timestamp" THEN t ELSE ioc_data[f]]

\* lines 39-40 of store_ioc: last_seen, from a second reading of the clock,
\* and the tags
stamp_last_seen(ioc_data, t) ==
    [f \in DOMAIN ioc_data \cup {"last_seen", "tags"} |->
        IF f = "last_seen" THEN t
        ELSE IF f = "tags" THEN Get(ioc_data, "tags", {})
        ELSE ioc_data[f]]

\* line 41 of store_ioc: ioc_data as insert_one completes it with the _id
new_document(coll, ioc_data) == [id |-> Len(coll) + 1] @@ ioc_data

insert_one(coll, doc) == Append(coll, doc)

\* the collection after the write of store_ioc: update_one with the $set
\* document computed at lines 29-33, or insert_one of the stamped ioc_data
store_write(coll, existing, ioc_data, fields) ==
    IF existing # None
    THEN update_one(coll, existing.id, fields)
    ELSE insert_one(coll, new_document(coll, ioc_data))

\* what store_ioc returns
store_result(coll, existing) ==
    IF existing # None THEN existing.id ELSE Len(coll) + 1

(***************************************************************************)
(* ThreatIntelService: the source lookups and lookup_ioc.  A source's      *)
(* response is NoData (no API key, a status other than 200, response_code  *)
(* other than 1, a timeout or any other exception: the lookup returns      *)
(* None) or the JSON body it answered with.                                *)
(***************************************************************************)
VtResponses == {NoData} \cup {[detected_urls |-> k] : k \in DetectedSamples}
AbuseResponses == {NoData} \cup {[abuseConfidencePercentage |-> c] : c \in ConfidenceSamples}

lookup_virustotal_ip(response) ==
    IF response = NoData THEN None
    ELSE LET threat_score == response.detected_urls * VtIpWeight
         IN [source |-> "virustotal",
             threat_score |-> normalize_threat_score("virustotal", threat_score),
             classification |-> classify_threat_score(threat_score)]

lookup_virustotal_domain(response) ==
    IF response = NoData THEN None
    ELSE LET threat_score == response.detected_urls * VtDomainWeight
         IN [source |-> "virustotal",
             threat_score |-> normalize_threat_score("virustotal", threat_score),
             classification |-> classify_threat_score(threat_score)]

\* lookup_abuseipdb answering with a zero score where the API gave no data
lookup_abuseipdb_default_zero(response) ==
    LET confidence == IF response = NoData THEN 0
                      ELSE response.abuseConfidencePercentage
    IN [source |-> "abuseipdb",
        threat_score |-> normalize_threat_score("abuseipdb", confidence),
        classification |-> classify_threat_score(confidence)]

lookup_abuseipdb(response) ==
    IF response = NoData THEN None
    ELSE LET confidence == response.abuseConfidencePercentage
         IN [source |-> "abuseipdb",
             threat_score |-> normalize_threat_score("abuseipdb", confidence),
             classification |-> classify_threat_score(confidence)]

\* the sources lookup_ioc invokes for a type (lines 167-182)
SourcesFor(ioc_type) ==
    IF ioc_type = "ip" THEN {"virustotal", "abuseipdb"}
    ELSE IF ioc_type = "domain" THEN {"virustotal"}
    ELSE {}

Only(r) == IF r # None THEN <<r>> ELSE <<>>

\* fan_out giving up at the first source without data
fan_out_all_or_nothing(ioc_type, vt, abuse) ==
    IF ioc_type = "ip"
    THEN IF lookup_virustotal_ip(vt) = None \/ lookup_abuseipdb(abuse) = None
         THEN <<>>
         ELSE <<lookup_virustotal_ip(vt), lookup_abuseipdb(abuse)>>
    ELSE IF ioc_type = "domain"
    THEN Only(lookup_virustotal_domain(vt))
    ELSE <<>>

\* lines 167-182 of lookup_ioc: the results list
fan_out(ioc_type, vt, abuse) ==
    IF ioc_type = "ip"
    THEN Only(lookup_virustotal_ip(vt)) \o Only(lookup_abuseipdb(abuse))
    ELSE IF ioc_type = "domain"
    THEN Only(lookup_virustotal_domain(vt))
    ELSE <<>>

Upper(ioc_type) ==
    CASE ioc_type = "ip" -> "IP"
      [] ioc_type = "domain" -> "DOMAIN"
      [] ioc_type = "hash" -> "HASH"
      [] OTHER -> "URL"

\* lines 186-197 of lookup_ioc: the aggregated ioc_data
aggregate(ioc, ioc_type, results) ==
    LET max_score == SetMax({results[i].threat_score : i \in 1..Len(results)})
    IN [value |-> ioc,
        type |-> ioc_type,
        threat_score |-> max_score,
        classification |-> classify_threat_score(max_score),
        sources |-> {results[i].source : i \in 1..Len(results)},
        source_details |-> results,
        description |-> <<Upper(ioc_type), ioc>>]

\* is_fresh with the comparison turned round
is_fresh_inverted(cached, t) ==
    cached # None /\ Seconds(t - cached.last_seen) >= FreshnessWindow

\* line 164 of lookup_ioc: the cache test
is_fresh(cached, t) ==
    cached # None /\ Seconds(t - cached.last_seen) < FreshnessWindow

(***************************************************************************)
(* Callers: request threads (lookup_ioc) and direct store_ioc callers.     *)
(***************************************************************************)
Idle ==
    [pc |-> "idle", op |-> "none", value |-> "", type |-> "",
     cached |-> None, asked_at |-> 0, calls |-> {},
     responses |-> [virustotal |-> NoData, abuseipdb |-> NoData], results |-> <<>>,
     ioc_data |-> None, existing |-> None, update_data |-> None, result |-> None,
     seen |-> {}]

NoHistory == [k \in Keys |-> [scores |-> {}, sources |-> {}]]

(***************************************************************************)
(* RealtimeFeedService: the state of the feed monitor.                     *)
(***************************************************************************)
Loops == 1..MaxLoops
StatsCallers == ({"client"} \X Clients) \cup ({"loop"} \X Loops)
StatsKeys == {"threats_last_hour", "threats_last_24h", "active_campaigns",
              "new_malware_families", "compromised_websites", "botnet_activity",
              "current_threat_level"}

\* __init__, lines 15-23
InitialStats ==
    [threats_last_hour |-> 0,
     threats_last_24h |-> 0,
     active_campaigns |-> 0,
     new_malware_families |-> 0,
     compromised_websites |-> 0,
     botnet_activity |-> 0,
     current_threat_level |-> "medium"]

NotStarted ==
    [pc |-> "none", n |-> 0, i |-> 0, ioc_data |-> None, existing |-> None,
     update_data |-> None, recorded |-> {}, failed_at |-> 0, recomputed |-> FALSE, wait |-> 0, sent |-> {}]

NotUpdating ==
    [pc |-> "off", hour_ago |-> 0, day_ago |-> 0, count |-> 0,
     critical_count |-> 0, high_count |-> 0, id |-> 0, failed |-> FALSE]

\* no scoring function has been called yet
NoCalc ==
    [op |-> "none", source |-> "", score |-> 0, positives |-> 0, total |-> 0,
     result |-> "", returned |-> int(0),
     pc |-> "idle", page |-> 0, limit |-> 0, search |-> <<>>, tag_filter |-> "",
     skip |-> 0, count |-> 0,
     data |-> [iocs |-> <<>>, total |-> 0, page |-> 0, pages |-> 0]]

Init ==
    /\ iocs = <<>>
    /\ now = 0
    /\ hist = NoHistory
    /\ ncalls = 0
    /\ req = [t \in Clients |-> Idle]
    /\ monitoring = FALSE
    /\ live_stats = InitialStats
    /\ mon = [m \in Loops |-> NotStarted]
    /\ upd = [x \in StatsCallers |-> NotUpdating]
    /\ written_by = [k \in StatsKeys |-> 0]
    /\ stopped = FALSE
    /\ ncycles = 0
    /\ nfaults = 0
    /\ nstats = 0
    /\ calc = NoCalc

\* the clock moves on
Tick(t) ==
    /\ t \in Times
    /\ t > now
    /\ now' = t
    /\ UNCHANGED <<calc, iocs, hist, ncalls, req, feed_vars>>

\* store_ioc(ioc_data) is called
StoreCall(c, ioc_data) ==
    /\ req[c].pc = "idle"
    /\ ncalls < MaxCalls
    /\ ncalls' = ncalls + 1
    /\ req' = [req EXCEPT ![c] = [Idle EXCEPT !.pc = "find", !.op = "store_ioc",
                                              !.value = ioc_data.value,
                                              !.type = ioc_data.type,
                                              !.ioc_data = ioc_data]]
    /\ UNCHANGED <<calc, iocs, now, hist, feed_vars>>

\* store_ioc, lines 22-25: find_one is sent and answered
StoreFind(c) ==
    /\ req[c].pc = "find"
    /\ req' = [req EXCEPT ![c].pc = "stamp",
                          ![c].existing = find_one(iocs, req[c].ioc_data.value,
                                                   req[c].ioc_data.type)]
    /\ UNCHANGED <<calc, iocs, now, hist, ncalls, feed_vars>>

\* store_ioc, lines 29-33 on the merge branch and line 38 on the insert
\* branch: the thread goes on after find_one and reads the clock, before
\* its write is sent
StoreStamp(c) ==
    LET r == req[c]
    IN /\ r.pc = "stamp"
       /\ req' = [req EXCEPT ![c] =
                     IF r.existing # None
                     THEN [r EXCEPT !.pc = "write",
                                    !.update_data = update_data(r.existing, r.ioc_data, now)]
                     ELSE [r EXCEPT !.pc = "seen",
                                    !.ioc_data = stamp_timestamp(r.ioc_data, now)]]
       /\ UNCHANGED <<calc, iocs, now, hist, ncalls, feed_vars>>

\* store_ioc, lines 39-40: the second reading of the clock, for last_seen
StoreSeen(c) ==
    /\ req[c].pc = "seen"
    /\ req' = [req EXCEPT ![c].pc = "write",
                          ![c].ioc_data = stamp_last_seen(@, now)]
    /\ UNCHANGED <<calc, iocs, now, hist, ncalls, feed_vars>>

\* store_ioc, lines 34-35 and 41-42: update_one or insert_one is applied,
\* with the values computed before it was sent, and the call returns;
\* lookup_ioc returns its ioc_data (line 201), which insert_one has
\* completed with the _id
StoreWrite(c) ==
    LET r == req[c]
        k == <<r.ioc_data.value, r.ioc_data.type>>
        ioc_data == IF r.existing = None THEN new_document(iocs, r.ioc_data)
                    ELSE r.ioc_data
    IN /\ r.pc = "write"
       /\ iocs' = store_write(iocs, r.existing, r.ioc_data, r.update_data)
       /\ hist' = [hist EXCEPT ![k].scores = @ \cup {r.ioc_data.threat_score},
                               ![k].sources = @ \cup r.ioc_data.sources]
       /\ req' = [req EXCEPT ![c].pc = "ret",
                             ![c].ioc_data = ioc_data,
                             ![c].result = IF r.op = "store_ioc"
                                           THEN [id |-> store_result(iocs, r.existing)]
                                           ELSE ioc_data]
       /\ UNCHANGED <<calc, now, ncalls, feed_vars>>

\* lookup_ioc, lines 160-163: the call, and get_ioc sent and answered
LookupBegin(c, ioc, ioc_type) ==
    /\ req[c].pc = "idle"
    /\ ncalls < MaxCalls
    /\ ncalls' = ncalls + 1
    /\ req' = [req EXCEPT ![c] =
                  [Idle EXCEPT !.op = "lookup_ioc", !.value = ioc, !.type = ioc_type,
                               !.cached = get_ioc(iocs, ioc, ioc_type),
                               !.pc = "cache"]]
    /\ UNCHANGED <<calc, iocs, now, hist, feed_vars>>

\* lookup_ioc, lines 164-165: the thread goes on after get_ioc, reads the
\* clock and tests the age of the record it was given
LookupCache(c) ==
    LET r == req[c]
    IN /\ r.pc = "cache"
       /\ req' = [req EXCEPT ![c].asked_at = now,
                             ![c].pc = IF is_fresh(r.cached, now) THEN "ret" ELSE "fanout",
                             ![c].result = IF is_fresh(r.cached, now) THEN r.cached
                                           ELSE None]
       /\ UNCHANGED <<calc, iocs, now, hist, ncalls, feed_vars>>

\* lookup_ioc, lines 183-203, once the source calls of the type have
\* returned: the results list, the aggregated ioc_data, and the call of
\* store_ioc or the return of None
Aggregated(r, calls, responses) ==
    LET results == fan_out(r.type, responses["virustotal"], responses["abuseipdb"])
    IN [r EXCEPT !.calls = calls,
                 !.responses = responses,
                 !.results = results,
                 !.ioc_data = IF results # <<>>
                              THEN aggregate(r.value, r.type, results)
                              ELSE None,
                 !.pc = IF results # <<>> THEN "find" ELSE "ret",
                 !.result = None]

\* lookup_ioc, lines 167-170 and 177-179: the request to VirusTotal is sent
\* and answered; a type with no source goes on to line 183 at once.  The
\* caller then waits in lookup_virustotal_* (time.sleep(15), lines 66 and
\* 100, when the answer held no data) while other threads and the clock
\* move on
LookupFanOut(c, vt) ==
    LET r == req[c]
    IN /\ r.pc = "fanout"
       /\ req' = [req EXCEPT ![c] =
                     IF r.type \in {"ip", "domain"}
                     THEN [r EXCEPT !.calls = {"virustotal"},
                                    !.responses = [virustotal |-> vt, abuseipdb |-> NoData],
                                    !.pc = "vt_done"]
                     ELSE Aggregated(r, {}, r.responses)]
       /\ UNCHANGED <<calc, iocs, now, hist, ncalls, feed_vars>>

\* lookup_ioc, lines 172-175: lookup_virustotal_* has returned; for an ip
\* the request to AbuseIPDB is sent and answered; then line 183
LookupAbuse(c, abuse) ==
    LET r == req[c]
    IN /\ r.pc = "vt_done"
       /\ req' = [req EXCEPT ![c] =
                     IF r.type = "ip"
                     THEN Aggregated(r, r.calls \cup {"abuseipdb"},
                                     [r.responses EXCEPT !["abuseipdb"] = abuse])
                     ELSE Aggregated(r, r.calls, r.responses)]
       /\ UNCHANGED <<calc, iocs, now, hist, ncalls, feed_vars>>

\* the tag lists the /api/iocs/<ioc_id>/tag route receives, sampled
TagSamples == {{}, {"reviewed"}}

\* update_ioc_tags(ioc_id, tags), lines 80-87: $set of the tags of the
\* document with that _id; true when a document was modified
UpdateIocTags(c, ioc_id, tags) ==
    /\ req[c].pc = "idle"
    /\ ncalls < MaxCalls
    /\ ncalls' = ncalls + 1
    /\ iocs' = update_one(iocs, ioc_id, [tags |-> tags])
    /\ req' = [req EXCEPT ![c] = [Idle EXCEPT !.op = "update_ioc_tags", !.pc = "ret",
                                              !.result = [modified |-> iocs' # iocs]]]
    /\ UNCHANGED <<calc, now, hist, feed_vars>>

\* what a caller receives from a call that raised: the exception
Raises == [error |-> "PyMongoError"]

\* a store_ioc that catches the failure of its database call and returns None
StoreRaises_swallowed(c) ==
    /\ req[c].pc \in {"find", "write"}
    /\ nfaults < MaxFaults
    /\ nfaults' = nfaults + 1
    /\ req' = [req EXCEPT ![c].pc = "ret", ![c].result = None]
    /\ UNCHANGED <<calc, iocs, now, hist, ncalls, monitoring, live_stats, mon, upd,
                   written_by, stopped, ncycles, nstats>>

\* store_ioc, lines 22-42: find_one, update_one or insert_one raises.  There
\* is no try in store_ioc, nor around the call at line 200 of lookup_ioc, so
\* the exception ends the call and is what its caller gets
StoreRaises(c) ==
    /\ req[c].pc \in {"find", "write"}
    /\ nfaults < MaxFaults
    /\ nfaults' = nfaults + 1
    /\ req' = [req EXCEPT ![c].pc = "ret", ![c].result = Raises]
    /\ UNCHANGED <<calc, iocs, now, hist, ncalls, monitoring, live_stats, mon, upd,
                   written_by, stopped, ncycles, nstats>>

\* lookup_ioc, line 163: the find_one of get_ioc raises.  There is no try
\* around it, the exception is what the caller of lookup_ioc gets
LookupRaises(c, ioc, ioc_type) ==
    /\ req[c].pc = "idle"
    /\ ncalls < MaxCalls
    /\ nfaults < MaxFaults
    /\ ncalls' = ncalls + 1
    /\ nfaults' = nfaults + 1
    /\ req' = [req EXCEPT ![c] =
                  [Idle EXCEPT !.op = "lookup_ioc", !.value = ioc, !.type = ioc_type,
                               !.pc = "ret", !.result = Raises]]
    /\ UNCHANGED <<calc, iocs, now, hist, monitoring, live_stats, mon, upd,
                   written_by, stopped, ncycles, nstats>>

\* the call returns to its caller
Return(c) ==
    /\ req[c].pc = "ret"
    /\ req' = [req EXCEPT ![c] = Idle]
    /\ UNCHANGED <<calc, iocs, now, hist, ncalls, feed_vars>>


(***************************************************************************)
(* RealtimeFeedService: start_monitoring, stop_monitoring and the monitor  *)
(* loop.  A step that reaches the database or the socket may raise: fail   *)
(* is the fault injected into it.                                          *)
(***************************************************************************)
Faulty(fail) == fail => nfaults < MaxFaults
CountFault(fail) == nfaults' = IF fail THEN nfaults + 1 ELSE nfaults

\* start_monitoring that starts a thread whatever the flag says
StartMonitoring_unguarded(c) ==
    /\ req[c].pc = "idle"
    /\ ncalls < MaxCalls
    /\ ncalls' = ncalls + 1
    /\ req' = [req EXCEPT ![c] = [Idle EXCEPT !.op = "start_monitoring", !.pc = "spawn"]]
    /\ UNCHANGED <<calc, now, store_vars, feed_vars>>

\* start_monitoring, line 45: the test of self.monitoring; with the flag
\* set the call returns at once
StartMonitoring(c) ==
    /\ req[c].pc = "idle"
    /\ ncalls < MaxCalls
    /\ ncalls' = ncalls + 1
    /\ req' = [req EXCEPT ![c] = [Idle EXCEPT !.op = "start_monitoring",
                                              !.pc = IF monitoring THEN "idle" ELSE "spawn"]]
    /\ UNCHANGED <<calc, now, store_vars, feed_vars>>

\* start_monitoring, lines 46-48: set the flag and start a monitor thread
StartThread(c) ==
    /\ req[c].pc = "spawn"
    /\ \E m \in Loops :
          /\ mon[m].pc = "none"
          /\ \A l \in Loops : l < m => mon[l].pc # "none"
          /\ mon' = [mon EXCEPT ![m].pc = "check"]
    /\ monitoring' = TRUE
    /\ req' = [req EXCEPT ![c] = Idle]
    /\ UNCHANGED <<calc, now, store_vars, ncalls, live_stats, upd, written_by, stopped,
                   ncycles, nfaults, nstats>>

\* stop_monitoring, lines 51-54
StopMonitoring(c) ==
    /\ req[c].pc = "idle"
    /\ ncalls < MaxCalls
    /\ ncalls' = ncalls + 1
    /\ monitoring' = FALSE
    /\ stopped' = (stopped \/ monitoring)
    /\ req' = [req EXCEPT ![c] = [Idle EXCEPT !.op = "stop_monitoring"]]
    /\ UNCHANGED <<calc, now, store_vars, live_stats, mon, upd, written_by,
                   ncycles, nfaults, nstats>>

\* random.randint(1, 4), line 81, sampled
CycleSizes == {1, 3}

\* a loop that never reads the flag (while True)
LoopCheck_unconditional(m, n) ==
    /\ mon[m].pc = "check"
    /\ ncycles < MaxCycles
    /\ ncycles' = ncycles + 1
    /\ mon' = [mon EXCEPT ![m] = [NotStarted EXCEPT !.pc = "detect", !.n = n, !.i = 1]]
    /\ UNCHANGED <<calc, now, store_vars, req, ncalls, monitoring, live_stats, upd,
                   written_by, stopped, nfaults, nstats>>

\* _monitor_threats, lines 58-61, and line 81: the test of the while loop;
\* a cycle begins with the draw of num_threats
LoopCheck(m, n) ==
    /\ mon[m].pc = "check"
    /\ IF monitoring
       THEN /\ ncycles < MaxCycles
            /\ ncycles' = ncycles + 1
            /\ mon' = [mon EXCEPT ![m] = [NotStarted EXCEPT !.pc = "detect",
                                                             !.n = n, !.i = 1]]
       ELSE /\ mon' = [mon EXCEPT ![m] = [NotStarted EXCEPT !.pc = "exited"]]
            /\ UNCHANGED ncycles
    /\ UNCHANGED <<calc, now, store_vars, req, ncalls, monitoring, live_stats, upd,
                   written_by, stopped, nfaults, nstats>>

\* the exception ends the thread, as with no except clause
Raised_exits(l, at) == [l EXCEPT !.pc = "exited", !.failed_at = at]

\* the except clause with the wait of a cycle that went well
Raised_short_wait(l, at) == [l EXCEPT !.pc = "sleep", !.wait = 10, !.failed_at = at]

\* _monitor_threats, lines 72-74: the except clause
Raised(l, at) == [l EXCEPT !.pc = "sleep", !.wait = 30, !.failed_at = at]

\* _simulate_threat_detection, lines 83-94: the next observation is
\* generated and the find_one of store_ioc is sent and answered
Detect(m, threat_data, fail) ==
    /\ mon[m].pc = "detect"
    /\ mon[m].i <= mon[m].n
    /\ Faulty(fail)
    /\ CountFault(fail)
    /\ mon' = [mon EXCEPT ![m] =
                  IF fail THEN Raised(@, @.i)
                  ELSE [@ EXCEPT !.pc = "stamp", !.ioc_data = threat_data,
                                 !.existing = find_one(iocs, threat_data.value,
                                                       threat_data.type)]]
    /\ UNCHANGED <<calc, now, store_vars, req, ncalls, monitoring, live_stats, upd,
                   written_by, stopped, ncycles, nstats>>

\* store_ioc, lines 29-33 and 38, in the monitor thread: the clock is read
\* before the write is sent
MonitorStamp(m) ==
    LET l == mon[m]
    IN /\ l.pc = "stamp"
       /\ mon' = [mon EXCEPT ![m] =
                     IF l.existing # None
                     THEN [l EXCEPT !.pc = "write",
                                    !.update_data = update_data(l.existing, l.ioc_data, now)]
                     ELSE [l EXCEPT !.pc = "seen",
                                    !.ioc_data = stamp_timestamp(l.ioc_data, now)]]
       /\ UNCHANGED <<calc, now, store_vars, req, ncalls, monitoring, live_stats, upd,
                      written_by, stopped, ncycles, nfaults, nstats>>

\* store_ioc, lines 39-40, in the monitor thread
MonitorSeen(m) ==
    /\ mon[m].pc = "seen"
    /\ mon' = [mon EXCEPT ![m].pc = "write",
                          ![m].ioc_data = stamp_last_seen(@, now)]
    /\ UNCHANGED <<calc, now, store_vars, req, ncalls, monitoring, live_stats, upd,
                   written_by, stopped, ncycles, nfaults, nstats>>

\* store_ioc, lines 34-35 and 41-42, called from the monitor thread:
\* update_one or insert_one is applied or raises
MonitorWrite(m, fail) ==
    LET l == mon[m]
        k == <<l.ioc_data.value, l.ioc_data.type>>
    IN /\ l.pc = "write"
       /\ Faulty(fail)
       /\ CountFault(fail)
       /\ IF fail
          THEN /\ mon' = [mon EXCEPT ![m] = Raised(@, @.i)]
               /\ UNCHANGED store_vars
          ELSE /\ iocs' = store_write(iocs, l.existing, l.ioc_data, l.update_data)
               /\ hist' = [hist EXCEPT ![k].scores = @ \cup {l.ioc_data.threat_score},
                                       ![k].sources = @ \cup l.ioc_data.sources]
               /\ mon' = [mon EXCEPT ![m].pc = "emit",
                                     ![m].ioc_data =
                                         IF l.existing = None
                                         THEN new_document(iocs, l.ioc_data)
                                         ELSE l.ioc_data,
                                     ![m].recorded = @ \cup {l.i}]
       /\ UNCHANGED <<calc, now, req, ncalls, monitoring, live_stats, upd, written_by,
                      stopped, ncycles, nstats>>

\* _simulate_threat_detection, lines 97-102: emit('new_threat') and on to
\* the next observation
Emit(m, fail) ==
    /\ mon[m].pc = "emit"
    /\ Faulty(fail)
    /\ CountFault(fail)
    /\ mon' = [mon EXCEPT ![m] =
                  IF fail THEN Raised(@, @.i)
                  ELSE [@ EXCEPT !.pc = "detect", !.i = @ + 1, !.ioc_data = None,
                                 !.existing = None, !.update_data = None]]
    /\ UNCHANGED <<calc, now, store_vars, req, ncalls, monitoring, live_stats, upd,
                   written_by, stopped, ncycles, nstats>>

(***************************************************************************)
(* _update_live_stats, run by the monitor thread and by get_live_stats:    *)
(* one step for each count_documents call and one for each assignment to   *)
(* a key of the shared dict.                                               *)
(***************************************************************************)
\* lines 360-361: timedelta(hours=1) and timedelta(hours=24) before t
hour_ago(t) == t - 3600
day_ago(t) == t - 86400

\* count_documents({'classification': c, 'timestamp': {'$gte': since}});
\* classification "" stands for a filter on the timestamp alone
count_documents(coll, classification, since) ==
    Cardinality({i \in 1..Len(coll) :
                    /\ coll[i].timestamp >= since
                    /\ classification # "" => coll[i].classification = classification})

\* lines 383-390
threat_level(critical_count, high_count) ==
    IF critical_count > 5 THEN "critical"
    ELSE IF critical_count > 0 \/ high_count > 10 THEN "high"
    ELSE IF high_count > 0 THEN "medium"
    ELSE "low"

\* random.randint(lo, hi) of the demo metrics, sampled at its lower end
RandMetric(lo, hi) == {lo}

\* the recompute begins (lines 358-361): the clock is read once
BeginUpdate(x) ==
    /\ nstats' = nstats + 1
    /\ upd' = [upd EXCEPT ![x] = [NotUpdating EXCEPT !.pc = "hour", !.id = nstats + 1,
                                                     !.hour_ago = hour_ago(now),
                                                     !.day_ago = day_ago(now)]]

\* lines 399-411: the except clause writes fallback values into every key
Fallback(x) ==
    /\ \E h \in RandMetric(5, 20), d \in RandMetric(50, 200), a \in RandMetric(5, 25),
          f \in RandMetric(0, 3), w \in RandMetric(10, 50), b \in RandMetric(2, 15) :
          live_stats' = [threats_last_hour |-> h,
                         threats_last_24h |-> d,
                         current_threat_level |-> "medium",
                         active_campaigns |-> a,
                         new_malware_families |-> f,
                         compromised_websites |-> w,
                         botnet_activity |-> b]
    /\ written_by' = [k \in StatsKeys |-> upd[x].id]
    /\ upd' = [upd EXCEPT ![x].pc = "done", ![x].failed = TRUE]

\* lines 364-366: count_documents is sent and answered
CountLastHour(x, fail) ==
    /\ upd[x].pc = "hour"
    /\ Faulty(fail)
    /\ CountFault(fail)
    /\ IF fail THEN Fallback(x)
       ELSE /\ upd' = [upd EXCEPT ![x].pc = "set_hour",
                                  ![x].count = count_documents(iocs, "", upd[x].hour_ago)]
            /\ UNCHANGED <<live_stats, written_by>>
    /\ UNCHANGED <<calc, now, store_vars, req, ncalls, monitoring, mon, stopped, ncycles, nstats>>

\* line 364: the answer is stored into the dict
UpdateLastHour(x) ==
    /\ upd[x].pc = "set_hour"
    /\ live_stats' = [live_stats EXCEPT !.threats_last_hour = upd[x].count]
    /\ written_by' = [written_by EXCEPT !["threats_last_hour"] = upd[x].id]
    /\ upd' = [upd EXCEPT ![x].pc = "day"]
    /\ UNCHANGED <<calc, now, store_vars, req, ncalls, monitoring, mon, stopped, ncycles,
                   nfaults, nstats>>

\* lines 368-370: count_documents is sent and answered
CountLastDay(x, fail) ==
    /\ upd[x].pc = "day"
    /\ Faulty(fail)
    /\ CountFault(fail)
    /\ IF fail THEN Fallback(x)
       ELSE /\ upd' = [upd EXCEPT ![x].pc = "set_day",
                                  ![x].count = count_documents(iocs, "", upd[x].day_ago)]
            /\ UNCHANGED <<live_stats, written_by>>
    /\ UNCHANGED <<calc, now, store_vars, req, ncalls, monitoring, mon, stopped, ncycles, nstats>>

\* line 368: the answer is stored into the dict
UpdateLastDay(x) ==
    /\ upd[x].pc = "set_day"
    /\ live_stats' = [live_stats EXCEPT !.threats_last_24h = upd[x].count]
    /\ written_by' = [written_by EXCEPT !["threats_last_24h"] = upd[x].id]
    /\ upd' = [upd EXCEPT ![x].pc = "critical"]
    /\ UNCHANGED <<calc, now, store_vars, req, ncalls, monitoring, mon, stopped, ncycles,
                   nfaults, nstats>>

\* lines 373-376
CountCritical(x, fail) ==
    /\ upd[x].pc = "critical"
    /\ Faulty(fail)
    /\ CountFault(fail)
    /\ IF fail THEN Fallback(x)
       ELSE /\ upd' = [upd EXCEPT ![x].pc = "high",
                                  ![x].critical_count =
                                      count_documents(iocs, "critical", upd[x].hour_ago)]
            /\ UNCHANGED <<live_stats, written_by>>
    /\ UNCHANGED <<calc, now, store_vars, req, ncalls, monitoring, mon, stopped, ncycles, nstats>>

\* lines 378-381
CountHigh(x, fail) ==
    /\ upd[x].pc = "high"
    /\ Faulty(fail)
    /\ CountFault(fail)
    /\ IF fail THEN Fallback(x)
       ELSE /\ upd' = [upd EXCEPT ![x].pc = "level",
                                  ![x].high_count =
                                      count_documents(iocs, "high", upd[x].hour_ago)]
            /\ UNCHANGED <<live_stats, written_by>>
    /\ UNCHANGED <<calc, now, store_vars, req, ncalls, monitoring, mon, stopped, ncycles, nstats>>

\* lines 383-390: the threat level is stored into the dict
UpdateThreatLevel(x) ==
    /\ upd[x].pc = "level"
    /\ live_stats' = [live_stats EXCEPT
                         !.current_threat_level =
                             threat_level(upd[x].critical_count, upd[x].high_count)]
    /\ written_by' = [written_by EXCEPT !["current_threat_level"] = upd[x].id]
    /\ upd' = [upd EXCEPT ![x].pc = "active_campaigns"]
    /\ UNCHANGED <<calc, now, store_vars, req, ncalls, monitoring, mon, stopped, ncycles,
                   nfaults, nstats>>

\* lines 394-397: the demo metrics, in the order of their assignments, and
\* the bounds of the random.randint of each
Metrics ==
    << [key |-> "active_campaigns", lo |-> 5, hi |-> 25],
       [key |-> "new_malware_families", lo |-> 0, hi |-> 3],
       [key |-> "compromised_websites", lo |-> 10, hi |-> 50],
       [key |-> "botnet_activity", lo |-> 2, hi |-> 15] >>

\* one of lines 394-397: a demo metric is drawn and stored into the dict
UpdateMetric(x) ==
    \E n \in 1..Len(Metrics) :
        /\ upd[x].pc = Metrics[n].key
        /\ \E v \in RandMetric(Metrics[n].lo, Metrics[n].hi) :
              live_stats' = [live_stats EXCEPT ![Metrics[n].key] = v]
        /\ written_by' = [written_by EXCEPT ![Metrics[n].key] = upd[x].id]
        /\ upd' = [upd EXCEPT ![x].pc = IF n < Len(Metrics) THEN Metrics[n + 1].key
                                        ELSE "done"]
        /\ UNCHANGED <<calc, now, store_vars, req, ncalls, monitoring, mon, stopped,
                       ncycles, nfaults, nstats>>

\* one step of a recompute; fail is the fault injected into its database call
UpdateStep(x, fail) ==
    \/ CountLastHour(x, fail)
    \/ CountLastDay(x, fail)
    \/ CountCritical(x, fail)
    \/ CountHigh(x, fail)
    \/ ~ fail /\ \/ UpdateLastHour(x)
                 \/ UpdateLastDay(x)
                 \/ UpdateThreatLevel(x)
                 \/ UpdateMetric(x)

\* the recomputes whose values the dict holds at this moment
Writers == {written_by[k] : k \in StatsKeys}

\* _simulate_threat_detection has returned; _monitor_threats line 64 calls
\* _update_live_stats
DetectDone(m) ==
    /\ mon[m].pc = "detect"
    /\ mon[m].i > mon[m].n
    /\ BeginUpdate(<<"loop", m>>)
    /\ mon' = [mon EXCEPT ![m].pc = "stats"]
    /\ UNCHANGED <<calc, now, store_vars, req, ncalls, monitoring, live_stats, written_by,
                   stopped, ncycles, nfaults>>

\* _monitor_threats, lines 67-70: _broadcast_updates emits the dict, then
\* time.sleep(10)
Broadcast(m, fail) ==
    /\ mon[m].pc = "stats"
    /\ upd[<<"loop", m>>].pc = "done"
    /\ Faulty(fail)
    /\ CountFault(fail)
    /\ upd' = [upd EXCEPT ![<<"loop", m>>] = NotUpdating]
    /\ mon' = [mon EXCEPT ![m] =
                  IF fail THEN Raised([@ EXCEPT !.recomputed = TRUE], @.n + 1)
                  ELSE [@ EXCEPT !.pc = "sleep", !.wait = 10, !.recomputed = TRUE,
                                 !.sent = Writers]]
    /\ UNCHANGED <<calc, now, store_vars, req, ncalls, monitoring, live_stats, written_by,
                   stopped, ncycles, nstats>>

\* time.sleep returns, back to the test of the while loop
Sleep(m) ==
    /\ mon[m].pc = "sleep"
    /\ mon' = [mon EXCEPT ![m] = [NotStarted EXCEPT !.pc = "check"]]
    /\ UNCHANGED <<calc, now, store_vars, req, ncalls, monitoring, live_stats, upd,
                   written_by, stopped, ncycles, nfaults, nstats>>

\* get_live_stats is called (line 419)
GetLiveStats(c) ==
    /\ req[c].pc = "idle"
    /\ ncalls < MaxCalls
    /\ ncalls' = ncalls + 1
    /\ BeginUpdate(<<"client", c>>)
    /\ req' = [req EXCEPT ![c] = [Idle EXCEPT !.op = "get_live_stats", !.pc = "stats"]]
    /\ UNCHANGED <<calc, now, store_vars, monitoring, live_stats, mon, written_by,
                   stopped, ncycles, nfaults>>

\* get_live_stats returns the dict itself (line 420) and the route
\* serializes it (app.py lines 132-133)
Serialize(c) ==
    /\ req[c].pc = "stats"
    /\ upd[<<"client", c>>].pc = "done"
    /\ upd' = [upd EXCEPT ![<<"client", c>>] = NotUpdating]
    /\ req' = [req EXCEPT ![c].pc = "ret", ![c].result = live_stats, ![c].seen = Writers]
    /\ UNCHANGED <<calc, now, store_vars, ncalls, monitoring, live_stats, mon, written_by,
                   stopped, ncycles, nfaults, nstats>>

\* one step of a monitor thread
LoopStep(m, threats, sizes, faults) ==
    \/ \E n \in sizes : LoopCheck(m, n)
    \/ \E d \in threats, fail \in faults : Detect(m, d, fail)
    \/ MonitorStamp(m)
    \/ MonitorSeen(m)
    \/ \E fail \in faults : MonitorWrite(m, fail)
    \/ \E fail \in faults : Emit(m, fail)
    \/ DetectDone(m)
    \/ \E fail \in faults : Broadcast(m, fail)
    \/ Sleep(m)

\* the observations of two templates
FeedThreats ==
    {d \in NewThreats : d.sources \subseteq {"network_monitor", "email_filter"}}

\* the observations of the botnet template alone
StatsThreats == {d \in FeedThreats : d.classification = "critical"}

\* the monitor and the callers of start_monitoring and stop_monitoring
NextMonitor ==
    \/ \E c \in Clients : \/ StartMonitoring(c)
                          \/ StartThread(c)
                          \/ StopMonitoring(c)
    \/ \E m \in Loops : LoopStep(m, StatsThreats, CycleSizes, BOOLEAN)
    \/ \E x \in {"loop"} \X Loops, fail \in BOOLEAN : UpdateStep(x, fail)

SpecMonitor == Init /\ [][NextMonitor]_vars

(***************************************************************************)
(* The scoring functions, called on their own: every call is one step that *)
(* leaves its arguments and what it returned in calc.                      *)
(***************************************************************************)
SourceIds == {"virustotal", "abuseipdb", "unknown_feed"}
RawScores == (0 - MaxRaw)..(ScoreCap + MaxRaw)
RatioParts == 0..MaxRatio
\* _classify_threat_score(score)
Classify(score) ==
    /\ calc' = [NoCalc EXCEPT !.op = "classify", !.score = score,
                              !.result = classify_threat_score(score)]
    /\ UNCHANGED <<iocs, now, req, hist, ncalls, feed_vars>>

\* normalize_threat_score(source, score) with a number
NormalizeScore(source, score) ==
    /\ calc' = [NoCalc EXCEPT !.op = "normalize", !.source = source, !.score = score,
                              !.returned = int(normalize_threat_score(source, score))]
    /\ UNCHANGED <<iocs, now, req, hist, ncalls, feed_vars>>

\* normalize_threat_score("virustotal", {'positives': p, 'total': t})
NormalizeRatio(positives, total) ==
    /\ calc' = [NoCalc EXCEPT !.op = "normalize", !.source = "virustotal",
                              !.positives = positives, !.total = total,
                              !.returned = normalize_ratio(positives, total)]
    /\ UNCHANGED <<iocs, now, req, hist, ncalls, feed_vars>>

NextScoring ==
    \/ \E score \in RawScores : Classify(score)
    \/ \E source \in SourceIds, score \in RawScores : NormalizeScore(source, score)
    \/ \E positives \in RatioParts, total \in RatioParts : NormalizeRatio(positives, total)

SpecScoring == Init /\ [][NextScoring]_vars

(***************************************************************************)
(* DatabaseService.get_iocs_paginated. A text (value, description, search  *)
(* pattern) is the sequence of its characters. The call sends two queries, *)
(* count_documents and find, and a store_ioc of another thread may be      *)
(* applied between them.                                                   *)
(***************************************************************************)
\* lines 53-54, {"$regex": search, "$options": "i"}: the pattern is found
\* somewhere in the text, letters compared without their case (the letters
\* that occur in the sampled texts); a dot stands for any character (the
\* sampled patterns hold no other metacharacter)
regex_search(pattern, text) ==
    LET lower(c) == CASE c = "A" -> "a"
                      [] c = "B" -> "b"
                      [] c = "K" -> "k"
                      [] c = "N" -> "n"
                      [] OTHER -> c
    IN \E at \in 0..(Len(text) - Len(pattern)) :
           \A j \in 1..Len(pattern) :
               \/ pattern[j] = "."
               \/ lower(pattern[j]) = lower(text[at + j])

\* lines 50-59: a document satisfies the query built from search and
\* tag_filter
Matches(doc, search, tag_filter) ==
    /\ \/ search = <<>>
       \/ regex_search(search, doc.value)
       \/ regex_search(search, doc.description)
    /\ tag_filter = "" \/ tag_filter \in doc.tags

\* the documents of the collection that satisfy the query
find(coll, search, tag_filter) ==
    {i : i \in {j \in 1..Len(coll) : Matches(coll[j], search, tag_filter)}}

\* skip counting pages from 0
skip_zero_indexed(page, limit) == page * limit

\* line 61
skip(page, limit) == (page - 1) * limit

\* .sort("timestamp", -1) names no second key: documents of one timestamp
\* come in an order the database chooses. The orders it may choose, each
\* as a ranking of the documents that share their timestamp with another
tie_orders(coll, ids) ==
    LET tied == {i \in ids : \E j \in ids : j # i /\ coll[j].timestamp = coll[i].timestamp}
    IN {tie \in Permutations(tied) :
           \A i, j \in tied : coll[i].timestamp > coll[j].timestamp => tie[i] < tie[j]}

\* lines 64-71: find(query).sort("timestamp", -1).skip(skip).limit(limit)
\* with the order tie among equal timestamps, and line 71, str() of each _id
sort_skip_limit(coll, ids, tie, skipped, limit) ==
    LET before(j, i) == \/ coll[j].timestamp > coll[i].timestamp
                        \/ /\ coll[j].timestamp = coll[i].timestamp
                           /\ j # i
                           /\ tie[j] < tie[i]
        sorted == {<<1 + Cardinality({j \in ids : before(j, i)}), i>> : i \in ids}
        last == Min(Cardinality(ids), skipped + limit)
    IN [k \in 1..Max(0, last - skipped) |->
           [coll[(CHOOSE at \in sorted : at[1] = skipped + k)[2]]
               EXCEPT !.id = [str |-> @]]]

\* the i-th indicator given to store_ioc: host<i> with i in decimal, every
\* second one tagged malware, every third one described as a bank
PagingIoc(i) ==
    LET digit(d) == <<"0", "1", "2", "3", "4", "5", "6", "7", "8", "9">>[d + 1]
        decimal == IF i < 10 THEN <<digit(i)>>
                   ELSE IF i < 100 THEN <<digit(i \div 10), digit(i % 10)>>
                   ELSE <<digit(i \div 100), digit((i \div 10) % 10), digit(i % 10)>>
    IN [value |-> <<"h", "o", "s", "t">> \o decimal,
        type |-> "domain",
        threat_score |-> 70,
        classification |-> "high",
        sources |-> {"email_filter"},
        tags |-> IF i % 2 = 0 THEN {"malware"} ELSE {"phishing"},
        description |-> IF i % 3 = 0 THEN <<"B", "a", "n", "k">> ELSE <<"m", "a", "i", "l">>,
        source_details |-> <<>>]

\* the i-th document is completed when i - 1 documents are stored: the
\* first MaxTied within one reading of the clock, the others one after the
\* other
Inserted(T) ==
    LET at(i) == IF i <= MaxTied THEN 1 ELSE i
    IN [i \in 1..T |-> new_document([j \in 1..(i - 1) |-> PagingIoc(j)],
                                    stamp_last_seen(stamp_timestamp(PagingIoc(i), at(i)),
                                                    at(i)))]

\* T documents are stored, the last of them at this reading of the clock;
\* the history is kept for the keys stored from then on
InitPaging ==
    /\ \E T \in (0..MaxRecords) \cup {120} :
          /\ iocs = Inserted(T)
          /\ now = IF T = 0 THEN 0 ELSE Inserted(T)[T].timestamp
          /\ hist = [k \in {<<PagingIoc(i).value, PagingIoc(i).type>> :
                               i \in {1} \cup ((T + 1)..(T + MaxWrites))} |->
                        [scores |-> {}, sources |-> {}]]
    /\ ncalls = 0
    /\ req = [t \in Clients |-> Idle]
    /\ monitoring = FALSE
    /\ live_stats = InitialStats
    /\ mon = [m \in Loops |-> NotStarted]
    /\ upd = [x \in StatsCallers |-> NotUpdating]
    /\ written_by = [k \in StatsKeys |-> 0]
    /\ stopped = FALSE
    /\ ncycles = 0
    /\ nfaults = 0
    /\ nstats = 0
    /\ calc = NoCalc

\* GET /api/iocs (app.py lines 97-102) calls get_iocs_paginated; lines
\* 50-62: the query, skip, and count_documents sent and answered
GetIocsPaginated(page, limit, search, tag_filter) ==
    /\ calc.pc = "idle"
    /\ calc' = [NoCalc EXCEPT !.op = "get_iocs_paginated", !.pc = "find",
                              !.page = page, !.limit = limit,
                              !.search = search, !.tag_filter = tag_filter,
                              !.skip = skip(page, limit),
                              !.count = Cardinality(find(iocs, search, tag_filter))]
    /\ UNCHANGED <<iocs, now, req, hist, ncalls, feed_vars>>

\* lines 64-78: find is sent and answered, on the collection as it is by
\* then, and the dict is returned
FindIocs ==
    LET ids == find(iocs, calc.search, calc.tag_filter)
    IN /\ calc.pc = "find"
       /\ \E tie \in tie_orders(iocs, ids) :
             calc' = [calc EXCEPT
                         !.pc = "ret",
                         !.data = [iocs |-> sort_skip_limit(iocs, ids, tie, calc.skip,
                                                            calc.limit),
                                   total |-> calc.count,
                                   page |-> calc.page,
                                   pages |-> (calc.count + calc.limit - 1)
                                                \div calc.limit]]
       /\ UNCHANGED <<iocs, now, req, hist, ncalls, feed_vars>>

\* app.py line 103: the dict goes to the client in the response
ReturnIocs ==
    /\ calc.pc = "ret"
    /\ calc' = NoCalc
    /\ UNCHANGED <<iocs, now, req, hist, ncalls, feed_vars>>

\* page queries with the arguments of the /api/iocs route (app.py lines
\* 97-100), sampled, beside a thread that calls store_ioc, as the monitor
\* thread (app.py line 48) and lookup_ioc do, with a new indicator or the
\* first one again; the 120 documents of the example are paged by the
\* default limit
NextPaging ==
    \/ \E page \in 1..MaxPage, limit \in (1..MaxLimit) \cup {DefaultLimit},
          search \in {<<>>, <<"B", "A", "N", "K">>, <<"t", ".", "0">>},
          tag_filter \in {"", "malware"} :
          /\ Len(iocs) > MaxRecords + MaxWrites => limit = DefaultLimit
          /\ GetIocsPaginated(page, limit, search, tag_filter)
    \/ FindIocs
    \/ ReturnIocs
    \/ \E ioc_data \in {PagingIoc(Len(iocs) + 1), PagingIoc(1)} :
          /\ ncalls < MaxWrites
          /\ StoreCall(1, ioc_data)
    \/ StoreFind(1)
    \/ StoreStamp(1)
    \/ StoreSeen(1)
    \/ StoreWrite(1)
    \/ Return(1)

SpecPaging == InitPaging /\ [][NextPaging]_vars

\* random.randint(1, 4), line 81, sampled at two values
ControlSizes == {1, 2}

\* the monitor with one thread calling start_monitoring and stop_monitoring:
\* the application's main thread starts the monitor (app.py line 48), and
\* nothing starts it again once it has been stopped; cycles of one or two
\* observations of one template, any step of which may raise
NextControl ==
    \/ ~ stopped /\ StartMonitoring(1)
    \/ StartThread(1)
    \/ StopMonitoring(1)
    \/ \E m \in Loops : LoopStep(m, StatsThreats, ControlSizes, BOOLEAN)
    \/ \E x \in {"loop"} \X Loops, fail \in BOOLEAN : UpdateStep(x, fail)

SpecControl == Init /\ [][NextControl]_vars

\* the monitor threads are scheduled, and time.sleep and the database calls
\* return: as long as some thread can take a step, one of them does
FairControl ==
    WF_vars(\E m \in Loops :
               \/ LoopStep(m, StatsThreats, ControlSizes, BOOLEAN)
               \/ \E fail \in BOOLEAN : UpdateStep(<<"loop", m>>, fail))

SpecControlFair == SpecControl /\ FairControl

\* the clock is read a day after the start
StatsTimes == {t \in Times : t > FreshnessWindow}

\* the monitor, started by the main thread, and a caller of
\* /api/realtime/stats, while the clock moves: cycles of one observation,
\* faults in the database calls of _update_live_stats only
NextStats ==
    \/ StartMonitoring(1)
    \/ \E t \in StatsTimes : Tick(t)
    \/ StartThread(1)
    \/ GetLiveStats(2)
    \/ Serialize(2)
    \/ Return(2)
    \/ \E m \in Loops : LoopStep(m, StatsThreats, {1}, {FALSE})
    \/ \E x \in StatsCallers, fail \in BOOLEAN : UpdateStep(x, fail)

SpecStats == Init /\ [][NextStats]_vars

(***************************************************************************)
(* The recompute over a store that holds many observations: c critical and *)
(* h high documents stored within the last hour, after documents that are  *)
(* a day old. One client calls get_live_stats(); any count may raise.      *)
(***************************************************************************)
\* old critical documents stored a day ago, then c critical and h high ones
\* stored at this reading of the clock, each as store_ioc completes it
InitLevels ==
    /\ \E old \in {0, MaxCount \div 2}, c \in 0..MaxCount, h \in 0..MaxCount :
          LET ioc(i) == [value |-> <<"host", i>>,
                         type |-> "domain",
                         threat_score |-> IF i <= old + c THEN 90 ELSE 70,
                         classification |-> IF i <= old + c THEN "critical" ELSE "high",
                         sources |-> {"email_filter"},
                         tags |-> {"phishing"},
                         description |-> <<"domain", "email_filter">>,
                         source_details |-> <<>>]
              at(i) == IF i <= old THEN 0 ELSE SecondsPerDay
          IN iocs = [i \in 1..(old + c + h) |->
                        new_document([j \in 1..(i - 1) |-> ioc(j)],
                                     stamp_last_seen(stamp_timestamp(ioc(i), at(i)),
                                                     at(i)))]
    /\ now = SecondsPerDay
    /\ hist = NoHistory
    /\ ncalls = 0
    /\ req = [t \in Clients |-> Idle]
    /\ monitoring = FALSE
    /\ live_stats = InitialStats
    /\ mon = [m \in Loops |-> NotStarted]
    /\ upd = [x \in StatsCallers |-> NotUpdating]
    /\ written_by = [k \in StatsKeys |-> 0]
    /\ stopped = FALSE
    /\ ncycles = 0
    /\ nfaults = 0
    /\ nstats = 0
    /\ calc = NoCalc

NextLevels ==
    \/ GetLiveStats(1)
    \/ Serialize(1)
    \/ Return(1)
    \/ \E fail \in BOOLEAN : UpdateStep(<<"client", 1>>, fail)

SpecLevels == InitLevels /\ [][NextLevels]_vars

ClientStep(c, threats, keys) ==
    \/ \E ioc_data \in threats : StoreCall(c, ioc_data)
    \/ StoreFind(c)
    \/ StoreStamp(c)
    \/ StoreSeen(c)
    \/ StoreWrite(c)
    \/ \E k \in keys : LookupBegin(c, k[1], k[2])
    \/ LookupCache(c)
    \/ \E vt \in VtResponses : LookupFanOut(c, vt)
    \/ \E abuse \in AbuseResponses : LookupAbuse(c, abuse)
    \/ Return(c)

\* calls made one after another: a single caller; the clock is read half
\* an hour and a day after the start
SerialTimes == {t \in Times : t # FreshnessWindow}

NextSerial ==
    \/ ClientStep(1, NewThreats, Keys)
    \/ \E t \in SerialTimes : Tick(t)

SpecSerial == Init /\ [][NextSerial]_vars

\* the observations and the keys of the callers whose database calls may fail
FaultThreats == {d \in NewThreats : d.type = "ip" /\ d.classification = "critical"}
FaultKeys == {k \in Keys : k[2] = "ip"}

\* one caller of store_ioc and lookup_ioc next to the monitor thread it has
\* started; a database call of either may raise
NextFaults ==
    \/ ClientStep(1, FaultThreats, FaultKeys)
    \/ StoreRaises(1)
    \/ \E k \in FaultKeys : LookupRaises(1, k[1], k[2])
    \/ StartMonitoring(1)
    \/ StartThread(1)
    \/ \E m \in Loops : LoopStep(m, StatsThreats, ControlSizes, BOOLEAN)
    \/ \E x \in {"loop"} \X Loops : UpdateStep(x, FALSE)

SpecFaults == Init /\ [][NextFaults]_vars

\* store_ioc calls on the keys of one type and update_ioc_tags calls, one
\* after another
NextTags ==
    \/ \E ioc_data \in {d \in NewThreats : d.type = "ip"} : StoreCall(1, ioc_data)
    \/ StoreFind(1)
    \/ StoreStamp(1)
    \/ StoreSeen(1)
    \/ StoreWrite(1)
    \/ \E ioc_id \in 1..(Len(iocs) + 1), tags \in TagSamples : UpdateIocTags(1, ioc_id, tags)
    \/ Return(1)

SpecTags == Init /\ [][NextTags]_vars

\* concurrent callers, all of them on the keys of one type and storing the
\* observations of two templates, within the first hour
RacingKeys == IPs \X {"ip"}
RacingThreats == {d \in FeedThreats : <<d.value, d.type>> \in RacingKeys}

RacingTimes == {t \in Times : t <= FreshnessWindow}

Next ==
    \/ \E c \in Clients : ClientStep(c, RacingThreats, RacingKeys)
    \/ \E t \in RacingTimes : Tick(t)

Spec == Init /\ [][Next]_vars

(***************************************************************************)
(* Properties.                                                             *)
(***************************************************************************)
Stored(k) == find_one(iocs, k[1], k[2])
Written(k) == hist[k].scores # {}

\* C1 (merge monotonicity): store_ioc calls made one after another leave,
\* for every key, a record whose threat_score is the maximum of all the
\* scores stored for that key so far, whatever their order of arrival.
C1_MergeMonotonicity ==
    \A k \in Keys :
        Written(k) => /\ Stored(k) # None
                      /\ Stored(k).threat_score = SetMax(hist[k].scores)

\* a store_ioc call has just merged a score lower than the stored one
C1_Witness ==
    \E c \in Clients :
        /\ req[c].pc = "ret"
        /\ req[c].op = "store_ioc"
        /\ req[c].existing # None
        /\ req[c].ioc_data.threat_score < req[c].existing.threat_score
        /\ Cardinality(hist[<<req[c].value, req[c].type>>].scores) >= 2

\* C2 (uniqueness), as claimed: the store never holds two records with
\* the same (value, type).
C2_Uniqueness ==
    \A k \in Keys : Cardinality(Matching(iocs, k[1], k[2])) <= 1

\* no store_ioc call is between its find_one and its write
Quiescent == \A c \in Clients : req[c].pc \notin {"find", "stamp", "seen", "write"}

\* C3 (same-key serialization), as claimed: once concurrent store_ioc
\* calls have completed, the store is what some serial order of them
\* leaves: one record per key, with the maximum of the scores written and
\* the union of the sources written.
C3_SameKeySerialized ==
    Quiescent =>
        \A k \in Keys :
            Written(k) => /\ Cardinality(Matching(iocs, k[1], k[2])) = 1
                          /\ Stored(k).threat_score = SetMax(hist[k].scores)
                          /\ Stored(k).sources = hist[k].sources

\* C4 (classification), as claimed: every stored record's classification
\* is classify(threat_score) of its current threat_score.
C4_ClassificationDerived ==
    \A i \in 1..Len(iocs) :
        iocs[i].classification = classify_threat_score(iocs[i].threat_score)

\* the age of a cached record when lookup_ioc tested it
Age(r) == r.asked_at - r.cached.last_seen

\* C5 (freshness): a lookup_ioc that finds a stored record younger than the
\* freshness window returns that record at once, calls no source and leaves
\* the store as it was.
C5_Freshness ==
    [][\A c \in Clients, k \in Keys :
          (/\ req[c].pc = "cache"
           /\ req'[c].pc # "cache"
           /\ req[c].value = k[1] /\ req[c].type = k[2]
           /\ Stored(k) # None
           /\ now - Stored(k).last_seen < FreshnessWindow)
          => (/\ req'[c].pc = "ret"
              /\ req'[c].result = Stored(k)
              /\ req'[c].calls = {}
              /\ iocs' = iocs)]_vars

\* a lookup answered from a record that is half an hour old
C5_Witness ==
    \E c \in Clients :
        /\ req[c].pc = "ret"
        /\ req[c].op = "lookup_ioc"
        /\ req[c].cached # None
        /\ Age(req[c]) > 0
        /\ Age(req[c]) < FreshnessWindow
        /\ req[c].result = req[c].cached
        /\ req[c].calls = {}

\* C6 (bounded staleness), as claimed: a lookup_ioc that returns the cached
\* record although its age is the freshness window or more has first called
\* every source applicable to the type.
C6_BoundedStaleness ==
    \A c \in Clients :
        (/\ req[c].pc = "ret"
         /\ req[c].op = "lookup_ioc"
         /\ req[c].cached # None
         /\ req[c].result = req[c].cached
         /\ Age(req[c]) >= FreshnessWindow)
        => req[c].calls = SourcesFor(req[c].type)

\* the sources whose response carried data, and the score each one reports
Responders(r) == {src \in SourcesFor(r.type) : r.responses[src] # NoData}
ReportedScore(r, src) ==
    IF src = "abuseipdb"
    THEN Min(ScoreCap, r.responses[src].abuseConfidencePercentage)
    ELSE Min(ScoreCap, r.responses[src].detected_urls *
                           (IF r.type = "ip" THEN VtIpWeight ELSE VtDomainWeight))

\* C10 (partial source failure): a lookup_ioc for a key with no stored
\* record, where at least one applicable source answers and the others do
\* not, returns an indicator and has created the record, with the maximum
\* of the answered scores and exactly the answering sources.
C10_PartialFailure ==
    \A c \in Clients :
        LET r == req[c]
            k == <<r.value, r.type>>
        IN (/\ r.op = "lookup_ioc"
            /\ r.pc = "ret"
            /\ r.cached = None
            /\ Responders(r) # {})
           => (/\ Stored(k) # None
               /\ Stored(k).threat_score =
                      SetMax({ReportedScore(r, src) : src \in Responders(r)})
               /\ Stored(k).sources = Responders(r)
               /\ r.result # None
               /\ r.result.value = r.value)

\* VirusTotal gave no data, AbuseIPDB answered, and the record exists
C10_Witness ==
    \E c \in Clients :
        /\ req[c].op = "lookup_ioc"
        /\ req[c].pc = "ret"
        /\ req[c].cached = None
        /\ req[c].type = "ip"
        /\ req[c].responses["virustotal"] = NoData
        /\ req[c].responses["abuseipdb"] # NoData
        /\ Stored(<<req[c].value, req[c].type>>) # None
        /\ Stored(<<req[c].value, req[c].type>>).sources = {"abuseipdb"}

\* C7 (cycle isolation), as claimed: when the processing of one observation
\* of a cycle has raised, the cycle ends with every other observation of it
\* recorded and with its stats recompute run.
C7_CycleIsolation ==
    \A m \in Loops :
        (/\ mon[m].pc = "sleep"
         /\ mon[m].failed_at \in 1..mon[m].n)
        => (/\ (1..mon[m].n) \ {mon[m].failed_at} \subseteq mon[m].recorded
            /\ mon[m].recomputed)

\* C8 (Stopped is terminal), as claimed: once stop_monitoring has been
\* called on a running monitor, no monitor thread begins a cycle again.
C8_StoppedIsTerminal ==
    [][stopped => ~ \E m \in Loops : /\ mon[m].pc = "check"
                                     /\ mon'[m].pc = "detect"]_vars

\* C9 (atomic snapshot replacement), as claimed: the snapshot a
\* get_live_stats caller serializes, and the one a broadcast sends, holds
\* the values of one recompute (or of the constructor) only.
C9_AtomicSnapshot ==
    /\ \A c \in Clients :
          (req[c].pc = "ret" /\ req[c].op = "get_live_stats")
          => Cardinality(req[c].seen) <= 1
    /\ \A m \in Loops : Cardinality(mon[m].sent) <= 1

\* C11 (no source has data): a lookup_ioc whose fan-out gets data from no
\* applicable source, a type with no applicable source included, returns
\* None and leaves the store as it was.
C11_NoDataNotFound ==
    [][\A c \in Clients :
          (/\ req[c].pc \in {"fanout", "vt_done"}
           /\ req'[c].pc \notin {"fanout", "vt_done"}
           /\ Responders(req'[c]) = {})
          => (/\ req'[c].pc = "ret"
              /\ req'[c].result = None
              /\ iocs' = iocs)]_vars

\* a stale record is stored, both sources were asked, neither had data, and
\* the lookup answers None
C11_Witness ==
    \E c \in Clients :
        /\ req[c].op = "lookup_ioc"
        /\ req[c].pc = "ret"
        /\ req[c].cached # None
        /\ req[c].calls = {"virustotal", "abuseipdb"}
        /\ Responders(req[c]) = {}
        /\ req[c].result = None
        /\ Stored(<<req[c].value, req[c].type>>) = req[c].cached

\* a store_ioc call of caller c takes the merge branch in this step
Merges(c) ==
    /\ req[c].pc = "write"
    /\ req'[c].pc = "ret"
    /\ req[c].existing # None

\* C12 (sources never shrink), as claimed: no step removes a source from a
\* stored record, and a store_ioc merge leaves the record with the union
\* of the sources it had and the incoming ones.
C12_SourcesOnlyGrow ==
    [][/\ \A i \in 1..Len(iocs) : iocs[i].sources \subseteq iocs'[i].sources
       /\ \A c \in Clients :
             Merges(c) =>
                 iocs'[req[c].existing.id].sources =
                     iocs[req[c].existing.id].sources \cup req[c].ioc_data.sources]_vars

\* C13 (tags only grow), as claimed: no step removes a tag from a stored
\* record, and a store_ioc merge leaves the record with the union of the
\* tags it had and the incoming ones.
C13_TagsOnlyGrow ==
    [][/\ \A i \in 1..Len(iocs) : iocs[i].tags \subseteq iocs'[i].tags
       /\ \A c \in Clients :
             Merges(c) =>
                 iocs'[req[c].existing.id].tags =
                     iocs[req[c].existing.id].tags \cup Get(req[c].ioc_data, "tags", {})]_vars

\* C14 (timestamp is set once): in every state timestamp <= last_seen for
\* every stored record; no step changes the timestamp of a stored record,
\* and a store_ioc merge sets the record's last_seen to the current time,
\* as the call reads it before it sends its update.
C14_FirstSeenImmutable ==
    /\ [](\A i \in 1..Len(iocs) : iocs[i].timestamp <= iocs[i].last_seen)
    /\ [][/\ \A i \in 1..Len(iocs) : iocs'[i].timestamp = iocs[i].timestamp
          /\ \A c \in Clients :
                /\ (req[c].pc = "stamp" /\ req'[c].pc = "write")
                      => req'[c].update_data.last_seen = now
                /\ Merges(c) => iocs'[req[c].existing.id].last_seen =
                                    req[c].update_data.last_seen]_vars

\* a merge made after the creation time has just returned: the record's
\* last_seen is later than its timestamp
C14_Witness ==
    \E c \in Clients :
        /\ req[c].pc = "ret"
        /\ req[c].op = "store_ioc"
        /\ req[c].existing # None
        /\ iocs[req[c].existing.id].timestamp < now
        /\ iocs[req[c].existing.id].last_seen = now

\* C15 (the loop survives errors): a monitor thread leaves its loop only at
\* the while test, with the flag false, which only stop_monitoring makes
\* it; a thread in which a step of a cycle has raised comes back to the
\* while test and begins another cycle, unless stop_monitoring has been
\* called or the cycles of the model are used up.
C15_LoopSurvivesErrors ==
    /\ [][\A m \in Loops :
            (mon[m].pc # "exited" /\ mon'[m].pc = "exited")
            => (mon[m].pc = "check" /\ ~monitoring)]_vars
    /\ [](\A m \in Loops : mon[m].pc = "exited" => stopped)
    /\ \A m \in Loops :
          (mon[m].pc = "sleep" /\ mon[m].failed_at # 0)
          ~> (mon[m].pc = "detect" \/ stopped \/ ncycles = MaxCycles)

\* producing, storing or emitting an observation of a cycle has raised, the
\* except clause has caught it and the thread is in its 30 second sleep, running
C15_Witness ==
    \E m \in Loops :
        /\ mon[m].pc = "sleep"
        /\ mon[m].wait = 30
        /\ mon[m].failed_at \in 1..mon[m].n
        /\ monitoring
        /\ ~stopped
        /\ ncycles < MaxCycles

\* the monitor threads launched so far
Launched == {m \in Loops : mon[m].pc # "none"}

\* C16 (start_monitoring is idempotent): with one thread calling it, a
\* start_monitoring made while the flag is set returns with no thread
\* launched and the flag still set; one made while it is not set goes on
\* to set it and to launch exactly one thread; no other step launches one.
C16_StartIdempotent ==
    [][/\ (req[1].pc = "idle" /\ req'[1].op = "start_monitoring" /\ ncalls' > ncalls)
          => IF monitoring
             THEN req'[1].pc = "idle" /\ monitoring' /\ Launched' = Launched
             ELSE req'[1].pc = "spawn"
       /\ (req[1].pc = "spawn" /\ req'[1].pc # "spawn")
          => (monitoring' /\ Cardinality(Launched' \ Launched) = 1)
       /\ Launched' # Launched => (~monitoring /\ req[1].pc = "spawn")]_vars

\* the second of two start_monitoring calls has returned: one thread runs
C16_Witness ==
    /\ req[1].pc = "idle"
    /\ req[1].op = "start_monitoring"
    /\ monitoring
    /\ ~stopped
    /\ ncalls = 2
    /\ Cardinality(Launched) = 1

\* C17 (classification tiers): _classify_threat_score gives critical from
\* 80 up, high for 60..79, medium for 30..59, low for 1..29 and clean for
\* 0, and the listed tier for each of the nine sample scores.
C17_ClassifyTiers ==
    LET TierTable ==
            (0 :> "clean") @@ (1 :> "low") @@ (29 :> "low") @@ (30 :> "medium") @@
            (59 :> "medium") @@ (60 :> "high") @@ (79 :> "high") @@
            (80 :> "critical") @@ (100 :> "critical")
    IN
    calc.op = "classify" =>
        /\ calc.score >= 80 => calc.result = "critical"
        /\ calc.score \in 60..79 => calc.result = "high"
        /\ calc.score \in 30..59 => calc.result = "medium"
        /\ calc.score \in 1..29 => calc.result = "low"
        /\ calc.score = 0 => calc.result = "clean"
        /\ calc.score \in DOMAIN TierTable => calc.result = TierTable[calc.score]

\* the boundary score 80 has been classified critical
C17_Witness ==
    /\ calc.op = "classify"
    /\ calc.score = 80
    /\ calc.result = "critical"

\* C18 (normalization range), as claimed: whatever the source and the raw
\* score, normalize_threat_score returns a whole number from 0 to 100.
C18_NormalizedRange ==
    calc.op = "normalize" =>
        /\ calc.returned.frac = <<>>
        /\ 0 <= calc.returned.whole
        /\ calc.returned.whole <= ScoreCap

\* C19 (threat level thresholds): every stats recompute leaves the level that the thresholds
\* give for the last-hour counts: 'critical' above five critical IOCs, else
\* 'high' with a critical IOC or above ten high ones, else 'medium' with a
\* high IOC, else 'low'.
C19_ThreatLevelThresholds ==
    [][\A x \in StatsCallers :
          (upd[x].pc # "done" /\ upd'[x].pc = "done") =>
              LET since == upd[x].hour_ago
                  critical == Cardinality({i \in 1..Len(iocs) :
                                  /\ iocs[i].classification = "critical"
                                  /\ iocs[i].timestamp >= since})
                  high == Cardinality({i \in 1..Len(iocs) :
                                  /\ iocs[i].classification = "high"
                                  /\ iocs[i].timestamp >= since})
                  level == live_stats'.current_threat_level
              IN  /\ critical > 5 => level = "critical"
                  /\ critical \in 1..5 => level = "high"
                  /\ (critical = 0 /\ high > 10) => level = "high"
                  /\ (critical = 0 /\ high \in 1..10) => level = "medium"
                  /\ (critical = 0 /\ high = 0) => level = "low"]_vars

\* a recompute over a store with more than five critical IOCs of the last
\* hour has ended in its except clause and left 'medium'
C19_Witness ==
    \E x \in StatsCallers :
        /\ upd[x].pc = "done"
        /\ upd[x].failed
        /\ count_documents(iocs, "critical", upd[x].hour_ago) > 5
        /\ live_stats.current_threat_level = "medium"

\* C20 (read failure during a recompute), as claimed: when a
\* count_documents call of _update_live_stats raises, the recompute ends
\* with the snapshot left as it was or set to the default of the
\* constructor, all counts zero.
C20_ReadFailureKeepsSnapshot ==
    [][\A x \in StatsCallers :
          (/\ upd[x].pc \in {"hour", "day", "critical", "high"}
           /\ upd'[x].pc = "done"
           /\ nfaults' > nfaults)
          => (live_stats' = live_stats \/ live_stats' = InitialStats)]_vars

\* a lookup_ioc call of caller c has queried the sources, stored what they
\* answered and returns
Requeried(c) ==
    /\ req[c].op = "lookup_ioc"
    /\ req[c].pc = "ret"
    /\ req[c].results # <<>>

\* C23 (lookup returns the merged record), as claimed: the indicator a
\* re-querying lookup_ioc returns has the threat_score and the sources of
\* the record stored for its key.
C23_ReturnsMergedRecord ==
    \A c \in Clients :
        Requeried(c) =>
            /\ req[c].result.threat_score =
                   Stored(<<req[c].value, req[c].type>>).threat_score
            /\ req[c].result.sources = Stored(<<req[c].value, req[c].type>>).sources

\* C26 (source_details is append-only), as claimed: a store_ioc merge
\* leaves the record with its source_details followed by the incoming
\* ones, and no step removes, replaces or reorders an entry.
C26_SourceDetailsAppended ==
    [][/\ \A i \in 1..Len(iocs) :
             /\ Len(iocs'[i].source_details) >= Len(iocs[i].source_details)
             /\ SubSeq(iocs'[i].source_details, 1, Len(iocs[i].source_details))
                    = iocs[i].source_details
       /\ \A c \in Clients :
             Merges(c) =>
                 iocs'[req[c].existing.id].source_details =
                     iocs[req[c].existing.id].source_details
                         \o Get(req[c].ioc_data, "source_details", <<>>)]_vars

\* C30 (frame of a merge): a store_ioc call that finds its key stored
\* changes nothing but last_seen, sources and threat_score of that record,
\* leaves every other record and the number of records as they were, and
\* returns the id of that record.
C30_MergeFrame ==
    [][\A c \in Clients :
          Merges(c) =>
              /\ Len(iocs') = Len(iocs)
              /\ \A i \in 1..Len(iocs) : i # req[c].existing.id => iocs'[i] = iocs[i]
              /\ DOMAIN iocs'[req[c].existing.id] = DOMAIN iocs[req[c].existing.id]
              /\ \A f \in DOMAIN iocs[req[c].existing.id]
                                \ {"last_seen", "sources", "threat_score"} :
                     iocs'[req[c].existing.id][f] = iocs[req[c].existing.id][f]
              /\ req[c].op = "store_ioc" => req'[c].result = [id |-> req[c].existing.id]]_vars

\* a merge that raised the score of one of two stored records has returned
C30_Witness ==
    \E c \in Clients :
        /\ req[c].pc = "ret"
        /\ req[c].op = "store_ioc"
        /\ req[c].existing # None
        /\ Len(iocs) = 2
        /\ iocs[req[c].existing.id].threat_score > req[c].existing.threat_score
        /\ req[c].result = [id |-> req[c].existing.id]

\* C29 (one monitor loop at a time), as claimed: no two monitor threads are
\* inside the body of a cycle at the same moment.
C29_SingleLoop ==
    Cardinality({m \in Loops :
                    mon[m].pc \in {"detect", "stamp", "seen", "write", "emit",
                                  "stats"}}) <= 1

\* C25 (a stats read is only a read), as claimed: no step of a
\* get_live_stats call changes the stored snapshot.
C25_ReadOnlyStats ==
    [][\A c \in Clients :
          (req[c].op = "get_live_stats" /\ req[c].pc # "ret"
              /\ (req'[c] # req[c]
                    \/ upd'[<<"client", c>>] # upd[<<"client", c>>]))
          => live_stats' = live_stats]_vars

\* C24 (back-off after a failed cycle), as claimed: a cycle is followed by
\* the 30 s wait exactly when one of its steps (produce, record, recompute
\* stats, publish) met an error, and by the 10 s wait otherwise.
C24_BackoffOnAnyError ==
    [][\A m \in Loops :
          (mon[m].pc # "sleep" /\ mon'[m].pc = "sleep")
          => (/\ mon'[m].wait \in {10, 30}
              /\ mon'[m].wait = 30 <=> (\/ mon'[m].failed_at # 0
                                        \/ upd[<<"loop", m>>].failed))]_vars

\* C24 (back-off after a failed cycle), amended: a cycle is followed by the
\* 30 s wait exactly when producing or recording an observation, or
\* publishing, raised; an error inside the stats recompute is absorbed there
\* and leaves the 10 s wait; the wait of a cycle does not depend on the
\* cycle before it.
C24_BackoffOnRaise ==
    /\ [](\A m \in Loops :
            mon[m].pc = "sleep" =>
                /\ mon[m].wait \in {10, 30}
                /\ mon[m].wait = 30 <=> mon[m].failed_at # 0)
    /\ [][\A m \in Loops :
             (mon[m].pc = "sleep" /\ mon'[m].pc # "sleep")
             => (mon'[m].wait = 0 /\ mon'[m].failed_at = 0)]_vars

\* the second cycle of the only thread met a database error in its stats
\* recompute, which wrote the fallback figures, and sleeps 10 s
C24_Witness ==
    \E m \in Loops :
        /\ \A o \in Loops \ {m} : mon[o].pc = "none"
        /\ mon[m].pc = "sleep"
        /\ mon[m].failed_at = 0
        /\ mon[m].wait = 10
        /\ nfaults >= 1
        /\ live_stats.threats_last_24h = 50
        /\ ncycles = 2

\* C27 (order of events in a cycle), as claimed: in a cycle without error
\* an observation is stored before its new_threat event is emitted, whether
\* or not its key was stored before; every observation of the cycle is
\* stored before the stats recompute starts; the stats_update event is
\* emitted after the recompute has ended and carries the values that
\* recompute wrote, and no others.
C27_CycleOrder ==
    /\ [](\A m \in Loops :
            (mon[m].pc = "sleep" /\ mon[m].failed_at = 0)
            => mon[m].recorded = 1..mon[m].n)
    /\ [][\A m \in Loops :
             /\ (mon[m].pc = "write" /\ mon'[m].pc = "emit")
                => \E i \in 1..Len(iocs') :
                      /\ iocs'[i].value = mon[m].ioc_data.value
                      /\ iocs'[i].type = mon[m].ioc_data.type
             /\ (mon[m].pc = "emit" /\ mon'[m].pc = "detect")
                => mon[m].i \in mon[m].recorded
             /\ (mon[m].pc = "detect" /\ mon'[m].pc = "stats")
                => mon[m].recorded = 1..mon[m].n
             /\ (/\ mon[m].pc = "stats"
                 /\ mon'[m].pc = "sleep"
                 /\ mon'[m].failed_at = 0
                 /\ ~ upd[<<"loop", m>>].failed)
                => (/\ upd[<<"loop", m>>].pc = "done"
                    /\ mon'[m].sent = {upd[<<"loop", m>>].id})]_vars

\* C28 (stop ends the loop): a monitor thread that is running while the
\* flag is cleared eventually returns, unless start_monitoring sets the flag
\* again; a thread that has returned takes no further step; and once every
\* thread has returned, nothing is stored, recomputed or emitted any more.
C28_StopEndsLoop ==
    /\ \A m \in Loops :
          (mon[m].pc \notin {"none", "exited"} /\ ~ monitoring)
          ~> (mon[m].pc = "exited" \/ monitoring)
    /\ [][\A m \in Loops :
             mon[m].pc = "exited"
             => (mon'[m] = mon[m] /\ upd'[<<"loop", m>>] = upd[<<"loop", m>>])]_vars
    /\ [][(stopped /\ \A m \in Loops : mon[m].pc \in {"none", "exited"})
          => (iocs' = iocs /\ live_stats' = live_stats /\ nstats' = nstats)]_vars

\* stop_monitoring was called on a running monitor; the thread has stored
\* observations, recomputed the stats, slept and returned
C28_Witness ==
    \E m \in Loops :
        /\ stopped
        /\ ~ monitoring
        /\ mon[m].pc = "exited"
        /\ Len(iocs) >= 1
        /\ live_stats # InitialStats

\* C22 (pagination): get_iocs_paginated(page, limit) over T matching
\* records reports total = T and pages = ceil(T / limit), and for every page
\* from 1 to pages returns exactly min(limit, T - (page-1)*limit) records,
\* those at positions (page-1)*limit + 1 onward in most-recent-first order.
C22_PageOfTotal ==
    [][(calc.pc = "find" /\ calc'.pc = "ret") =>
          LET r == calc'.data
              T == r.total
              limit == calc.limit
              first == (calc.page - 1) * limit
          IN /\ r.pages * limit >= T
             /\ (r.pages - 1) * limit < T
             /\ (1 <= calc.page /\ calc.page <= r.pages) =>
                    /\ Len(r.iocs) = Min(limit, T - first)
                    /\ \A k \in 1..Len(r.iocs) :
                          \E i \in 1..Len(iocs) :
                              /\ r.iocs[k] = [iocs[i] EXCEPT !.id = [str |-> i]]
                              /\ Matches(iocs[i], calc.search, calc.tag_filter)]_vars

\* C22, amended: get_iocs_paginated reports total = T, the number of
\* matching records when it counts them, and pages = ceil(T / limit). Its
\* records are read after the count, from the T' records matching by then
\* (T' = T unless a record was stored in between): exactly
\* min(limit, T' - (page-1)*limit) of them, or none if that is negative, each
\* once, the k-th one at position (page-1)*limit + k of an order by
\* timestamp, most recent first, in which records of one timestamp may come
\* in any order. With T = T' = 120 and limit 50, page 3 holds 20 records and
\* pages is 3.
C22_Pagination ==
    [][/\ (calc.pc = "idle" /\ calc'.pc = "find") =>
             calc'.count
                 = Cardinality({i \in 1..Len(iocs) :
                                   Matches(iocs[i], calc'.search, calc'.tag_filter)})
       /\ (calc.pc = "find" /\ calc'.pc = "ret") =>
             LET r == calc'.data
                 T == calc.count
                 limit == calc.limit
                 first == (calc.page - 1) * limit
                 matching == {i \in 1..Len(iocs) :
                                 Matches(iocs[i], calc.search, calc.tag_filter)}
                 later == Cardinality(matching)
                 more_recent(i) == Cardinality({j \in matching :
                                                   iocs[j].timestamp > iocs[i].timestamp})
                 not_older(i) == Cardinality({j \in matching :
                                                 iocs[j].timestamp >= iocs[i].timestamp})
             IN /\ r.total = T
                /\ r.page = calc.page
                /\ r.pages * limit >= T
                /\ (r.pages - 1) * limit < T
                /\ Len(r.iocs) = Max(0, Min(limit, later - first))
                /\ \A k \in 1..Len(r.iocs) :
                      LET i == r.iocs[k].id.str
                      IN /\ i \in matching
                         /\ r.iocs[k] = [iocs[i] EXCEPT !.id = [str |-> i]]
                         /\ more_recent(i) < first + k
                         /\ first + k <= not_older(i)
                /\ \A k, l \in 1..Len(r.iocs) : k # l => r.iocs[k].id # r.iocs[l].id
                /\ (later = T /\ calc.page <= r.pages) =>
                      Len(r.iocs) = Min(limit, T - first)
                /\ (T = 120 /\ later = 120 /\ limit = 50 /\ calc.page = 3) =>
                      (Len(r.iocs) = 20 /\ r.pages = 3)]_vars

\* page 3 by 50 of 120 stored documents has been returned with 20
\* documents, the last two of them stored at one time, and pages = 3
C22_Witness ==
    /\ calc.op = "get_iocs_paginated"
    /\ calc.pc = "ret"
    /\ calc.search = <<>>
    /\ calc.tag_filter = ""
    /\ calc.limit = 50
    /\ calc.page = 3
    /\ Len(iocs) = 120
    /\ calc.data.total = 120
    /\ calc.data.pages = 3
    /\ Len(calc.data.iocs) = 20
    /\ calc.data.iocs[19].timestamp = calc.data.iocs[20].timestamp

\* C21 (write failures are surfaced): when a database call of store_ioc
\* raises, nothing is written and the caller of store_ioc, or of the
\* lookup_ioc that called it, receives the exception and neither an id nor
\* an indicator; in the monitor thread the except clause of the loop takes
\* it (the thread records the failed observation and sleeps), and the
\* thread goes back to the test of its loop afterwards.
C21_WriteFailureSurfaces ==
    /\ [][\A c \in Clients :
             (req[c].pc \in {"find", "write"} /\ req'[c] # req[c] /\ nfaults' > nfaults)
             => (/\ iocs' = iocs
                 /\ req'[c].pc = "ret"
                 /\ req'[c].result = Raises)]_vars
    /\ [](\A c \in Clients :
            (req[c].pc = "ret" /\ req[c].op \in {"store_ioc", "lookup_ioc"})
            => \/ req[c].result = Raises
               \/ req[c].result = None
               \/ \E i \in 1..Len(iocs) :
                     /\ iocs[i].value = req[c].value
                     /\ iocs[i].type = req[c].type)
    /\ [][\A m \in Loops :
             /\ (mon[m].pc \in {"detect", "write"} /\ mon'[m] # mon[m]
                    /\ nfaults' > nfaults)
                => (/\ iocs' = iocs
                    /\ mon'[m].pc = "sleep"
                    /\ mon'[m].failed_at = mon[m].i)
             /\ (mon[m].pc = "sleep" /\ mon'[m] # mon[m])
                => mon'[m].pc = "check"]_vars

\* the store_ioc call of a lookup_ioc has raised, and the caller holds the
\* exception, while the key is not stored
C21_Witness ==
    \E c \in Clients :
        /\ req[c].op = "lookup_ioc"
        /\ req[c].pc = "ret"
        /\ req[c].results # <<>>
        /\ req[c].result = Raises
        /\ Stored(<<req[c].value, req[c].type>>) = None

====
